---- MODULE Spec2Model ----
(***************************************************************************)
(* Model of the IFC viewer's data layer (viewer/src/main.ts):              *)
(*   - the ghost-mode material engine (setModelTransparent,                *)
(*     restoreModelMaterials, onGhost),                                    *)
(*   - the asynchronous properties panel (updatePropertiesPanel and the    *)
(*     highlighter's select / clear handlers),                             *)
(*   - the attribute extractor (extractValue),                             *)
(*   - the two set formatters (formatQuantitySets, formatPropertySets),    *)
(*   - the resolution of one element's bundle into what the panel shows.   *)
(* Each part has its own specification; the variables of the other parts   *)
(* stay at their initial values.                                           *)
(***************************************************************************)
EXTENDS Integers, Sequences, FiniteSets, TLC

VARIABLES
    materials,          \* fragments.core.models.materials.list, in insertion order
    originalColors,     \* Map<material, {color, transparent, opacity}>
    ghostModeEnabled,   \* let ghostModeEnabled
    isolatedMaterials,  \* postproduction.basePass.isolatedMaterials
    loadedAs,           \* history: each material as it was when it entered the list
    preGhost,           \* history: the material list as it was when last activated
    ghostOps,           \* history: the last two ghost-engine operations
    presses,            \* history: number of onGhost presses so far
    propsContainer,     \* what propsContainer.innerHTML shows ("unset": still null)
    fragList,           \* fragments.list: ids of the models currently loaded
    batches,            \* every updatePropertiesPanel invocation so far
    attrIn,             \* extractValue: the argument first given
    attr,               \* extractValue: the current value
    applied,            \* extractValue: how many times it has been applied
    rawPsets,           \* the definition records handed to the two formatters
    quantitySets,       \* what formatQuantitySets returned for rawPsets
    propertySets,       \* what formatPropertySets returned for rawPsets
    formatted,          \* whether the formatters have run
    dataObj,            \* the bundle getItemsData returned for one element
    viewModel,          \* what the resolution of dataObj produced
    resolved,           \* "pending", "done", or "thrown" when the resolution raised
    activeTool,         \* let activeTool ("null" for null)
    clipper,            \* clipper.enabled
    lengthMeasurer,     \* lengthMeasurer.enabled
    areaMeasurer,       \* areaMeasurer.enabled
    highlighter,        \* highlighter.enabled
    toolButton,         \* the data-tool button shown as active ("null": none)
    toolLog,            \* history: the arguments of the setTool calls so far
    loadedModels,       \* the keys of the loadedModels map
    loadHandlers,       \* the model ids whose onItemSet handler awaits fragments.core.update
    modelsListContainer,\* whether modelsListContainer has been set
    deleteButtons,      \* the model ids with a delete button in the models list
    registryLog         \* history: the loads and delete clicks so far

ghostVars == <<materials, originalColors, ghostModeEnabled, isolatedMaterials, loadedAs, preGhost, ghostOps, presses>>
panelVars == <<propsContainer, fragList, batches>>
extractVars == <<attrIn, attr, applied>>
formatVars == <<rawPsets, quantitySets, propertySets, formatted>>
resolveVars == <<dataObj, viewModel, resolved>>
toolVars == <<activeTool, clipper, lengthMeasurer, areaMeasurer, highlighter, toolButton, toolLog>>
registryVars == <<loadedModels, loadHandlers, modelsListContainer, deleteButtons, registryLog>>
vars == <<ghostVars, panelVars, extractVars, formatVars, resolveVars, toolVars, registryVars>>

(***************************************************************************)
(* Bounds of the model.                                                    *)
(***************************************************************************)
MaxMaterials == 2
MaxPresses == 4
MaxBatches == 2
MaxItems == 2
MaxRecords == 2
MaxTypes == 2
MaxToolCalls == 4
MaxRegistryEvents == 6
MaxNum == 4
MaxApply == 2

(***************************************************************************)
(* JavaScript values, as far as extractValue tells them apart.  A value is *)
(* a flat record: kind is the typeof-level shape; num / str / bool hold    *)
(* the payload of a scalar (or of a wrapper's value member); inner is the  *)
(* kind of a wrapper's value member.                                       *)
(***************************************************************************)
JsVal(kind, num, str, bool, inner) ==
    [kind |-> kind, num |-> num, str |-> str, bool |-> bool, inner |-> inner]

JsUndefined == JsVal("undefined", 0, "", FALSE, "")
JsNull == JsVal("null", 0, "", FALSE, "")
JsNumber(n) == JsVal("number", n, "", FALSE, "")
JsString(s) == JsVal("string", 0, s, FALSE, "")
JsBoolean(b) == JsVal("boolean", 0, "", b, "")
\* an object without a value member, and an array
JsObject == JsVal("object", 0, "", FALSE, "")
JsArray == JsVal("array", 0, "", FALSE, "")
\* an object exposing a value member holding v
JsWrapper(v) == JsVal("wrapper", v.num, v.str, v.bool, v.kind)

\* JavaScript's ToBoolean on these values
Truthy(v) ==
    CASE v.kind = "undefined" -> FALSE
      [] v.kind = "null" -> FALSE
      [] v.kind = "number" -> v.num # 0
      [] v.kind = "string" -> v.str # ""
      [] v.kind = "boolean" -> v.bool
      [] OTHER -> TRUE

IsScalar(v) == v.kind \in {"string", "number", "boolean"}

\* an extractor that does not unwrap
extractValueWithoutUnwrap(a) ==
    IF ~Truthy(a) THEN JsNull
    ELSE IF IsScalar(a) THEN a
    ELSE JsNull

extractValue(a) ==
    IF ~Truthy(a) THEN JsNull
    ELSE IF a.kind = "wrapper" THEN JsVal(a.inner, a.num, a.str, a.bool, "")
    ELSE IF IsScalar(a) THEN a
    ELSE JsNull

Nums == (0 - MaxNum) .. MaxNum
Strs == {"", "0", "Wall"}
Scalars == {JsNumber(n) : n \in Nums} \cup {JsString(s) : s \in Strs}
              \cup {JsBoolean(b) : b \in BOOLEAN}
WrapperInputs == {JsWrapper(v) : v \in Scalars \cup {JsNull, JsUndefined, JsObject}}
AttrInputs == Scalars \cup WrapperInputs \cup {JsNull, JsUndefined, JsObject, JsArray}

(***************************************************************************)
(* Ghost mode.  A material is a record; a solid material owns the field    *)
(* color, a level-of-detail material owns lodColor instead ("color" in     *)
(* material tells them apart); the field a material does not own is -1.    *)
(* Colours are the 24-bit integers getHex returns and setHex accepts;      *)
(* opacity is counted in tenths.  customId = "" stands for a material      *)
(* whose userData carries no (truthy) customId.                            *)
(***************************************************************************)
White == 16777215
GhostOpacity == 1

Material(customId, hasColor, hex, transparent, opacity) ==
    [customId |-> customId, hasColor |-> hasColor,
     color |-> IF hasColor THEN hex ELSE 0 - 1,
     lodColor |-> IF hasColor THEN 0 - 1 ELSE hex,
     transparent |-> transparent, opacity |-> opacity, needsUpdate |-> FALSE]

\* the looks a loaded material may have: opaque red, half-transparent grey,
\* and one that already looks like a ghosted material
Looks == { <<16711680, FALSE, 10>>, <<8421504, TRUE, 5>>, <<White, TRUE, GhostOpacity>> }
MaterialInputs ==
    { Material(id, hc, l[1], l[2], l[3]) :
        id \in {"", "select"}, hc \in BOOLEAN, l \in Looks }

\* if (material.userData.customId) continue;
OptOutIgnored(mat) == FALSE
OptOut(mat) == mat.customId # ""

\* "color" in material ? material.color.getHex() : material.lodColor.getHex()
getHex(mat) == IF mat.hasColor THEN mat.color ELSE mat.lodColor

\* "color" in material ? material.color.setHex(hex) : material.lodColor.setHex(hex)
setHex(mat, hex) ==
    IF mat.hasColor THEN [mat EXCEPT !.color = hex] ELSE [mat EXCEPT !.lodColor = hex]

\* the record originalColors.set stores for a material
Snapshot(mat) ==
    [color |-> getHex(mat), transparent |-> mat.transparent, opacity |-> mat.opacity]

\* the body of setModelTransparent's loop for one material that is not skipped
Ghosted(mat) ==
    setHex([mat EXCEPT !.transparent = TRUE, !.opacity = GhostOpacity,
                       !.needsUpdate = TRUE], White)

\* a restore that forgets the opacity
RestoredWithoutOpacity(mat, data) ==
    [setHex([mat EXCEPT !.transparent = data.transparent], data.color)
        EXCEPT !.needsUpdate = TRUE]

\* the body of restoreModelMaterials' loop for one snapshot entry
Restored(mat, data) ==
    [setHex([mat EXCEPT !.transparent = data.transparent, !.opacity = data.opacity],
            data.color)
        EXCEPT !.needsUpdate = TRUE]

\* the materials of list ms that setModelTransparent does not skip
GhostTargets(ms) == { m \in DOMAIN ms : ~OptOut(ms[m]) }

\* what is compared when a material is said to look as before
Appearance(mat) ==
    [color |-> mat.color, lodColor |-> mat.lodColor,
     transparent |-> mat.transparent, opacity |-> mat.opacity]

LastTwo(ops, op) == IF Len(ops) < 2 THEN Append(ops, op) ELSE <<ops[2], op>>

setModelTransparent ==
    /\ materials' = [m \in DOMAIN materials |->
                        IF OptOut(materials[m]) THEN materials[m]
                        ELSE Ghosted(materials[m])]
    /\ originalColors' =
          [m \in DOMAIN originalColors \cup GhostTargets(materials) |->
              IF m \in GhostTargets(materials) THEN Snapshot(materials[m])
              ELSE originalColors[m]]
    /\ ghostModeEnabled' = TRUE
    /\ preGhost' = IF ghostModeEnabled THEN preGhost ELSE materials
    /\ ghostOps' = LastTwo(ghostOps, "activate")

\* a restore that forgets originalColors.clear()
restoreWithoutClear ==
    /\ materials' = [m \in DOMAIN materials |->
                        IF m \in DOMAIN originalColors
                        THEN Restored(materials[m], originalColors[m])
                        ELSE materials[m]]
    /\ originalColors' = originalColors
    /\ ghostModeEnabled' = FALSE
    /\ preGhost' = preGhost
    /\ ghostOps' = LastTwo(ghostOps, "restore")

restoreModelMaterials ==
    /\ materials' = [m \in DOMAIN materials |->
                        IF m \in DOMAIN originalColors
                        THEN Restored(materials[m], originalColors[m])
                        ELSE materials[m]]
    /\ originalColors' = << >>
    /\ ghostModeEnabled' = FALSE
    /\ preGhost' = preGhost
    /\ ghostOps' = LastTwo(ghostOps, "restore")

\* a toggle that activates whatever the state
onGhostAlwaysActivates == setModelTransparent

\* a toggle that picks the wrong transition
onGhostInverted ==
    IF ghostModeEnabled THEN setModelTransparent ELSE restoreModelMaterials

onGhost ==
    IF ghostModeEnabled THEN restoreModelMaterials ELSE setModelTransparent

\* a press of the Ghost button
PressGhost ==
    /\ presses < MaxPresses
    /\ onGhost
    /\ presses' = presses + 1
    /\ UNCHANGED <<isolatedMaterials, loadedAs, panelVars, extractVars, formatVars, resolveVars, toolVars, registryVars>>

\* a material enters materials.list (a model is loaded); the onItemSet
\* handler isolates level-of-detail materials
LoadMaterial(mat) ==
    /\ Len(materials) < MaxMaterials
    /\ materials' = Append(materials, mat)
    /\ loadedAs' = Append(loadedAs, mat)
    /\ isolatedMaterials' =
          IF ~mat.hasColor THEN Append(isolatedMaterials, Len(materials) + 1)
          ELSE isolatedMaterials
    /\ ghostOps' = LastTwo(ghostOps, "load")
    /\ UNCHANGED <<originalColors, ghostModeEnabled, preGhost, presses, panelVars, extractVars, formatVars, resolveVars, toolVars, registryVars>>

InitGhost ==
    /\ materials = << >>
    /\ originalColors = << >>
    /\ ghostModeEnabled = FALSE
    /\ isolatedMaterials = << >>
    /\ loadedAs = << >>
    /\ preGhost = << >>
    /\ ghostOps = << >>
    /\ presses = 0

InitPanelIdle ==
    /\ propsContainer = [kind |-> "unset", items |-> << >>]
    /\ fragList = {}
    /\ batches = << >>

InitExtractIdle ==
    /\ attrIn = JsUndefined
    /\ attr = JsUndefined
    /\ applied = 0

InitFormatIdle ==
    /\ rawPsets = << >>
    /\ quantitySets = << >>
    /\ propertySets = << >>
    /\ formatted = FALSE

InitResolveIdle ==
    /\ dataObj = << >>
    /\ viewModel = << >>
    /\ resolved = "pending"

\* the tools as the start-up code leaves them
InitTools ==
    /\ activeTool = "null"
    /\ clipper = FALSE
    /\ lengthMeasurer = FALSE
    /\ areaMeasurer = FALSE
    /\ highlighter = TRUE
    /\ toolButton = "null"
    /\ toolLog = << >>

InitRegistryIdle ==
    /\ loadedModels = {}
    /\ loadHandlers = << >>
    /\ modelsListContainer = FALSE
    /\ deleteButtons = {}
    /\ registryLog = << >>

InitRest == InitTools /\ InitRegistryIdle

Init ==
    /\ InitGhost /\ InitPanelIdle /\ InitExtractIdle /\ InitFormatIdle /\ InitResolveIdle
    /\ InitRest

Next ==
    \/ PressGhost
    \/ \E mat \in MaterialInputs : LoadMaterial(mat)

Spec == Init /\ [][Next]_vars

(***************************************************************************)
(* extractValue applied to an attribute, and again to its own result.      *)
(***************************************************************************)
ApplyExtractValue ==
    /\ applied < MaxApply
    /\ attr' = extractValue(attr)
    /\ applied' = applied + 1
    /\ UNCHANGED <<attrIn, ghostVars, panelVars, formatVars, resolveVars, toolVars, registryVars>>

InitExtract ==
    /\ InitGhost /\ InitPanelIdle /\ InitFormatIdle /\ InitResolveIdle /\ InitRest
    /\ attrIn \in AttrInputs
    /\ attr = attrIn
    /\ applied = 0

NextExtract == ApplyExtractValue

SpecExtract == InitExtract /\ [][NextExtract]_vars

(***************************************************************************)
(* The properties panel.  A selection (OBC.ModelIdMap) is a sequence of    *)
(* <<modelId, ids>> in the mapping's order, ids in the set's order.        *)
(* propsContainer is [kind, items]: "unset" while the variable is null,    *)
(* "select" for the placeholder, "loading", "failed" for the text shown    *)
(* when nothing was rendered, and "elements" with the rendered entries.    *)
(* Every invocation of updatePropertiesPanel that reaches the container is *)
(* a record of batches: its selection, the position (mi, ii) of the        *)
(* element whose getItemsData it awaits, propsHtml, and as history the     *)
(* elements fetched, their outcomes, what it wrote at the end and which    *)
(* invocations were still awaiting when it started.                        *)
(***************************************************************************)
Models == {"m1", "m2"}

SelectionInputs ==
    { << <<"m1", <<1>>>> >>,
      << <<"m1", <<1, 2>>>> >>,
      << <<"m2", <<2>>>>, <<"m1", <<1>>>> >> }

\* how one awaited getItemsData call and the resolution of its result end:
\* "data" a bundle arrives and is resolved, "raise" getItemsData throws (the
\* inner catch leaves dataObj empty; a call that resolves without a bundle
\* leaves it empty in the same way), "bad" a bundle arrives on which the
\* resolution code throws (the per-element catch)
Outcomes == {"data", "raise", "bad"}

Panel(kind, items) == [kind |-> kind, items |-> items]
NothingWritten == Panel("none", << >>)

\* the elements of a selection in iteration order
RECURSIVE Flatten(_)
Flatten(sel) ==
    IF sel = << >> THEN << >>
    ELSE [i \in 1..Len(sel[1][2]) |-> <<sel[1][1], sel[1][2][i]>>] \o Flatten(Tail(sel))

\* the next entry of the selection, after entry mi, whose model
\* fragments.list holds (0: none); an empty id set is passed over
NextModel(sel, mi, fl) ==
    LET c == { k \in (mi + 1)..Len(sel) : sel[k][1] \in fl /\ Len(sel[k][2]) > 0 }
    IN  IF c = {} THEN 0 ELSE CHOOSE k \in c : \A j \in c : k <= j

\* what one iteration of the element loop pushes to propsHtml: the entry of
\* the resolved bundle, the entry of the minimal { type: "Unknown" } bundle
\* when dataObj stayed empty, nothing when the resolution threw
EntriesFor(el, outcome) ==
    IF outcome = "data" THEN << [model |-> el[1], id |-> el[2], type |-> "data"] >>
    ELSE IF outcome = "raise" THEN << [model |-> el[1], id |-> el[2], type |-> "Unknown"] >>
    ELSE << >>

\* an insertion at the front of propsHtml
Unshifted(propsHtml, entries) == entries \o propsHtml

\* propsHtml.push(html)
Pushed(propsHtml, entries) == propsHtml \o entries

\* propsContainer.innerHTML = propsHtml.length > 0 ? propsHtml.join("") : ...
Rendered(propsHtml) ==
    IF Len(propsHtml) > 0 THEN Panel("elements", propsHtml) ELSE Panel("failed", << >>)

\* the invocations still awaiting a fetch
InFlight == { b \in DOMAIN batches : batches[b].pc = "await" }

Batch(sel, mi, ii, pc, written) ==
    [sel |-> sel, mi |-> mi, ii |-> ii, pc |-> pc, propsHtml |-> << >>,
     fetched |-> << >>, outs |-> << >>, written |-> written, superseded |-> InFlight]

updatePropertiesPanel(modelIdMap) ==
    IF propsContainer.kind = "unset" THEN UNCHANGED panelVars
    ELSE
      /\ Len(batches) < MaxBatches
      /\ UNCHANGED fragList
      /\ IF modelIdMap = << >>
         THEN /\ propsContainer' = Panel("select", << >>)
              /\ batches' = Append(batches, Batch(modelIdMap, 0, 0, "done", Panel("select", << >>)))
         ELSE LET mi == NextModel(modelIdMap, 0, fragList)
              IN  IF mi = 0
                  THEN /\ propsContainer' = Rendered(<< >>)
                       /\ batches' = Append(batches, Batch(modelIdMap, 0, 0, "done", Rendered(<< >>)))
                  ELSE /\ propsContainer' = Panel("loading", << >>)
                       /\ batches' = Append(batches, Batch(modelIdMap, mi, 1, "await", NothingWritten))

\* the getItemsData call awaited by invocation b settles; the invocation
\* runs on to its next await or to its end
FetchSettles(b, outcome) ==
    /\ batches[b].pc = "await"
    /\ LET B == batches[b]
           el == <<B.sel[B.mi][1], B.sel[B.mi][2][B.ii]>>
           html == Pushed(B.propsHtml, EntriesFor(el, outcome))
           mi == IF B.ii < Len(B.sel[B.mi][2]) THEN B.mi
                 ELSE NextModel(B.sel, B.mi, fragList)
           ii == IF B.ii < Len(B.sel[B.mi][2]) THEN B.ii + 1 ELSE 1
           B1 == [B EXCEPT !.propsHtml = html, !.fetched = Append(@, el),
                           !.outs = Append(@, outcome)]
       IN  IF mi = 0
           THEN /\ propsContainer' = Rendered(html)
                /\ batches' = [batches EXCEPT ![b] =
                      [B1 EXCEPT !.pc = "done", !.mi = 0, !.ii = 0, !.written = Rendered(html)]]
           ELSE /\ propsContainer' = propsContainer
                /\ batches' = [batches EXCEPT ![b] = [B1 EXCEPT !.mi = mi, !.ii = ii]]
    /\ UNCHANGED <<fragList, ghostVars, extractVars, formatVars, resolveVars, toolVars, registryVars>>

\* highlighter.events.select.onHighlight
OnHighlight(modelIdMap) ==
    /\ updatePropertiesPanel(modelIdMap)
    /\ UNCHANGED <<ghostVars, extractVars, formatVars, resolveVars, toolVars, registryVars>>

\* highlighter.events.select.onClear
OnClear ==
    /\ updatePropertiesPanel(<< >>)
    /\ UNCHANGED <<ghostVars, extractVars, formatVars, resolveVars, toolVars, registryVars>>

\* updateModelsList: the models list shows a delete button per registered
\* model once modelsListContainer is set
ButtonsFor(container, registry, shown) == IF container THEN registry ELSE shown

\* the layout timer sets modelsListContainer and propsContainer to their
\* elements, the latter showing the placeholder the right panel was created
\* with, and calls updateModelsList
LayoutTimer ==
    /\ propsContainer.kind = "unset"
    /\ propsContainer' = Panel("select", << >>)
    /\ modelsListContainer' = TRUE
    /\ deleteButtons' = ButtonsFor(TRUE, loadedModels, deleteButtons)
    /\ UNCHANGED <<fragList, batches, ghostVars, extractVars, formatVars, resolveVars, toolVars,
                   loadedModels, loadHandlers, registryLog>>

\* an entry of registryLog, the history of loads, registrations and deletions
Event(op, modelId) == [op |-> op, modelId |-> modelId]

\* a click on the delete button of a model in the models list
ClickDelete(modelId) ==
    /\ modelId \in deleteButtons
    /\ Len(registryLog) < MaxRegistryEvents
    /\ IF modelId \in loadedModels
       THEN /\ fragList' = fragList \ {modelId}
            /\ loadedModels' = loadedModels \ {modelId}
            /\ deleteButtons' = ButtonsFor(modelsListContainer, loadedModels', deleteButtons)
       ELSE UNCHANGED <<fragList, loadedModels, deleteButtons>>
    /\ registryLog' = Append(registryLog, Event("delete", modelId))
    /\ UNCHANGED <<loadHandlers, modelsListContainer, propsContainer, batches,
                   ghostVars, extractVars, formatVars, resolveVars, toolVars>>

\* the two models loaded and registered, in that order, before the layout
\* timer has fired: the models list is not yet attached, so no delete button
\* is shown
InitPanel ==
    /\ InitGhost /\ InitExtractIdle /\ InitFormatIdle /\ InitResolveIdle /\ InitTools
    /\ propsContainer = Panel("unset", << >>)
    /\ fragList = Models
    /\ batches = << >>
    /\ loadedModels = Models
    /\ loadHandlers = << >>
    /\ modelsListContainer = FALSE
    /\ deleteButtons = {}
    /\ registryLog = << Event("load", "m1"), Event("register", "m1"),
                        Event("load", "m2"), Event("register", "m2") >>

NextPanel ==
    \/ LayoutTimer
    \/ \E sel \in SelectionInputs : OnHighlight(sel)
    \/ OnClear
    \/ \E b \in DOMAIN batches, outcome \in Outcomes : FetchSettles(b, outcome)
    \/ \E modelId \in Models : ClickDelete(modelId)

SpecPanel == InitPanel /\ [][NextPanel]_vars

(***************************************************************************)
(* The set formatters.  A result object is a function from its keys to its *)
(* values.  A definition record is [isObj, Name, type, Quantities,         *)
(* HasProperties, fields]: isObj is FALSE for an entry that is null or not *)
(* an object, type "" for a record without one, Quantities and             *)
(* HasProperties are [isArray, items], and fields holds the record's other *)
(* own keys in order.  A quantity sub-record is [isObj, Name, type, vals]: *)
(* type is the words of its type name (<< >> when it has none) and vals    *)
(* gives each of the six value fields, JsUndefined when it is missing.     *)
(* A property sub-record is [isObj, Name, NominalValue].                   *)
(***************************************************************************)
EmptyMap == << >>

\* an assignment that keeps what the key already holds
MapPutIfAbsent(m, k, v) ==
    [x \in DOMAIN m \cup {k} |-> IF x \in DOMAIN m THEN m[x] ELSE v]

\* m[k] = v
MapPut(m, k, v) ==
    [x \in DOMAIN m \cup {k} |-> IF x = k THEN v ELSE m[x]]

\* a guard that lets an empty object through
NonEmptyIgnored(m) == TRUE

\* Object.keys(m).length > 0
NonEmpty(m) == DOMAIN m # {}

ValueFields ==
    {"LengthValue", "AreaValue", "VolumeValue", "WeightValue", "CountValue", "TimeValue"}

NoValues == [f \in ValueFields |-> JsUndefined]

NoArray == [isArray |-> FALSE, items |-> << >>]
ArrayOf(items) == [isArray |-> TRUE, items |-> items]

RawQuantity(isObj, name, type, vals) ==
    [isObj |-> isObj, Name |-> name, type |-> type, vals |-> vals]

RawProperty(isObj, name, nominal) ==
    [isObj |-> isObj, Name |-> name, NominalValue |-> nominal]

RawPset(isObj, name, type, quantities, hasProperties, fields) ==
    [isObj |-> isObj, Name |-> name, type |-> type, Quantities |-> quantities,
     HasProperties |-> hasProperties, fields |-> fields]

\* quantityType.includes(word)
Includes(type, word) == \E i \in DOMAIN type : type[i] = word

getQuantityUnit(quantityType) ==
    IF Includes(quantityType, "Volume") THEN "m3"
    ELSE IF Includes(quantityType, "Area") THEN "m2"
    ELSE IF \/ Includes(quantityType, "Length") \/ Includes(quantityType, "Width")
            \/ Includes(quantityType, "Height") \/ Includes(quantityType, "Depth")
            \/ Includes(quantityType, "Perimeter") THEN "m"
    ELSE IF Includes(quantityType, "Weight") \/ Includes(quantityType, "Mass") THEN "kg"
    ELSE IF Includes(quantityType, "Count") THEN "ud"
    ELSE IF Includes(quantityType, "Time") THEN "s"
    ELSE ""

\* the chain of probes: the first value field that is not undefined
Probed(qObj) ==
    IF qObj.vals["LengthValue"] # JsUndefined
    THEN [value |-> extractValue(qObj.vals["LengthValue"]), unit |-> "m"]
    ELSE IF qObj.vals["AreaValue"] # JsUndefined
    THEN [value |-> extractValue(qObj.vals["AreaValue"]), unit |-> "m2"]
    ELSE IF qObj.vals["VolumeValue"] # JsUndefined
    THEN [value |-> extractValue(qObj.vals["VolumeValue"]), unit |-> "m3"]
    ELSE IF qObj.vals["WeightValue"] # JsUndefined
    THEN [value |-> extractValue(qObj.vals["WeightValue"]), unit |-> "kg"]
    ELSE IF qObj.vals["CountValue"] # JsUndefined
    THEN [value |-> extractValue(qObj.vals["CountValue"]), unit |-> "ud"]
    ELSE IF qObj.vals["TimeValue"] # JsUndefined
    THEN [value |-> extractValue(qObj.vals["TimeValue"]), unit |-> "s"]
    ELSE [value |-> JsNull, unit |-> ""]

\* value and unit of a sub-record, the unit inferred from the type name
\* when the probes found no value
ValueAndUnit(qObj) ==
    LET p == Probed(qObj)
    IN  IF p.value = JsNull /\ qObj.type # << >>
        THEN [value |-> p.value, unit |-> getQuantityUnit(qObj.type)]
        ELSE p

\* a test that lets every value through
SurvivesAlways(value) == TRUE

\* value !== null && typeof value === "number"
Survives(value) == value.kind = "number"

\* a name the formatters accept: truthy and a string
NamedBy(name) == Truthy(name) /\ name.kind = "string"

\* a test no record passes
QtyTaggedNever(psetObj) == FALSE

\* record.type === "IfcElementQuantity"
QtyTagged(psetObj) == psetObj.type = "IfcElementQuantity"

RECURSIVE quantitiesOf(_, _)
quantitiesOf(items, quantities) ==
    IF items = << >> THEN quantities
    ELSE LET q == Head(items)
             qName == extractValue(q.Name)
             e == ValueAndUnit(q)
         IN  IF ~q.isObj THEN quantitiesOf(Tail(items), quantities)
             ELSE IF ~NamedBy(qName) THEN quantitiesOf(Tail(items), quantities)
             ELSE IF Survives(e.value)
             THEN quantitiesOf(Tail(items), MapPut(quantities, qName.str, e))
             ELSE quantitiesOf(Tail(items), quantities)

RECURSIVE formatQuantitySetsInto(_, _)
formatQuantitySetsInto(psets, result) ==
    IF psets = << >> THEN result
    ELSE LET pset == Head(psets)
             qsetName == extractValue(pset.Name)
             quantities == quantitiesOf(pset.Quantities.items, EmptyMap)
         IN  IF ~pset.isObj THEN formatQuantitySetsInto(Tail(psets), result)
             ELSE IF ~QtyTagged(pset) THEN formatQuantitySetsInto(Tail(psets), result)
             ELSE IF ~NamedBy(qsetName) THEN formatQuantitySetsInto(Tail(psets), result)
             ELSE IF ~pset.Quantities.isArray THEN formatQuantitySetsInto(Tail(psets), result)
             ELSE IF NonEmpty(quantities)
             THEN formatQuantitySetsInto(Tail(psets), MapPut(result, qsetName.str, quantities))
             ELSE formatQuantitySetsInto(Tail(psets), result)

formatQuantitySets(psets) == formatQuantitySetsInto(psets, EmptyMap)

Entry(key, value) == [key |-> key, value |-> value]

\* a skip list that skips nothing
IsStructuralKeyNever(key) == FALSE

\* the keys the direct-field loop skips
IsStructuralKey(key) ==
    key \in {"Name", "type", "HasProperties", "GlobalId", "OwnerHistory", "Description"}

\* Object.entries(psetObj)
OwnEntries(psetObj) ==
    (IF psetObj.Name # JsUndefined THEN <<Entry("Name", psetObj.Name)>> ELSE << >>)
    \o (IF psetObj.type # "" THEN <<Entry("type", JsString(psetObj.type))>> ELSE << >>)
    \o (IF psetObj.HasProperties.isArray THEN <<Entry("HasProperties", JsArray)>> ELSE << >>)
    \o (IF psetObj.Quantities.isArray THEN <<Entry("Quantities", JsArray)>> ELSE << >>)
    \o psetObj.fields

\* extractValue(psetObj.Name) || psetObj.type || "PropertySet"
PsetNameOf(psetObj) ==
    LET n == extractValue(psetObj.Name)
    IN  IF Truthy(n) THEN n
        ELSE IF psetObj.type # "" THEN JsString(psetObj.type)
        ELSE JsString("PropertySet")

RECURSIVE propsOfHasProperties(_, _)
propsOfHasProperties(items, props) ==
    IF items = << >> THEN props
    ELSE LET prop == Head(items)
             propName == extractValue(prop.Name)
             propValue == extractValue(prop.NominalValue)
         IN  IF ~prop.isObj THEN propsOfHasProperties(Tail(items), props)
             ELSE IF NamedBy(propName) /\ propValue.kind \notin {"undefined", "null"}
             THEN propsOfHasProperties(Tail(items), MapPut(props, propName.str, propValue))
             ELSE propsOfHasProperties(Tail(items), props)

RECURSIVE propsOfFields(_, _)
propsOfFields(entries, props) ==
    IF entries = << >> THEN props
    ELSE LET e == Head(entries)
             extracted == extractValue(e.value)
         IN  IF IsStructuralKey(e.key) THEN propsOfFields(Tail(entries), props)
             ELSE IF extracted.kind \notin {"null", "object", "array"}
             THEN propsOfFields(Tail(entries), MapPut(props, e.key, extracted))
             ELSE propsOfFields(Tail(entries), props)

\* the properties of one record with its own fields first
propsOfFieldsFirst(psetObj) ==
    IF psetObj.HasProperties.isArray
    THEN propsOfHasProperties(psetObj.HasProperties.items,
                              propsOfFields(OwnEntries(psetObj), EmptyMap))
    ELSE propsOfFields(OwnEntries(psetObj), EmptyMap)

\* the properties of one record: its HasProperties first, then its own fields
propsOf(psetObj) ==
    propsOfFields(OwnEntries(psetObj),
        IF psetObj.HasProperties.isArray
        THEN propsOfHasProperties(psetObj.HasProperties.items, EmptyMap)
        ELSE EmptyMap)

RECURSIVE formatPropertySetsInto(_, _)
formatPropertySetsInto(psets, result) ==
    IF psets = << >> THEN result
    ELSE LET pset == Head(psets)
             psetName == PsetNameOf(pset)
             props == propsOf(pset)
         IN  IF ~pset.isObj THEN formatPropertySetsInto(Tail(psets), result)
             ELSE IF QtyTagged(pset) THEN formatPropertySetsInto(Tail(psets), result)
             ELSE IF psetName.kind # "string" THEN formatPropertySetsInto(Tail(psets), result)
             ELSE IF NonEmpty(props)
             THEN formatPropertySetsInto(Tail(psets), MapPut(result, psetName.str, props))
             ELSE formatPropertySetsInto(Tail(psets), result)

formatPropertySets(psets) == formatPropertySetsInto(psets, EmptyMap)

(***************************************************************************)
(* The inputs of the formatters: one record with any short sequence of     *)
(* sub-records, and any short sequence of records of a fixed palette.      *)
(***************************************************************************)
SeqsUpTo(S, n) == UNION {[1..k -> S] : k \in 0..n}

Quantity(name, type, vals) == RawQuantity(TRUE, name, type, vals)
NotAnObject == RawQuantity(FALSE, JsUndefined, << >>, NoValues)

QuantityPalette ==
    { Quantity(JsString("a"), << >>,
               [NoValues EXCEPT !["LengthValue"] = JsWrapper(JsNumber(2))]),
      Quantity(JsString("a"), <<"Ifc", "Quantity", "Area">>,
               [NoValues EXCEPT !["AreaValue"] = JsWrapper(JsNumber(3))]),
      Quantity(JsString("a"), <<"Ifc", "Quantity", "Height">>, NoValues),
      Quantity(JsString("b"), << >>,
               [NoValues EXCEPT !["LengthValue"] = JsNull,
                                !["AreaValue"] = JsWrapper(JsNumber(1))]),
      Quantity(JsString("b"), << >>,
               [NoValues EXCEPT !["WeightValue"] = JsWrapper(JsNumber(1)),
                                !["TimeValue"] = JsWrapper(JsNumber(2))]),
      Quantity(JsWrapper(JsString("b")), <<"Ifc", "Quantity", "Count">>,
               [NoValues EXCEPT !["CountValue"] = JsNumber(2)]),
      Quantity(JsString("b"), << >>,
               [NoValues EXCEPT !["VolumeValue"] = JsString("Wall")]),
      Quantity(JsUndefined, << >>,
               [NoValues EXCEPT !["LengthValue"] = JsWrapper(JsNumber(1))]),
      NotAnObject }

Property(name, nominal) == RawProperty(TRUE, name, nominal)

PropertyPalette ==
    { Property(JsWrapper(JsString("p")), JsWrapper(JsString("Wall"))),
      Property(JsWrapper(JsString("p")), JsWrapper(JsNumber(1))),
      Property(JsWrapper(JsString("Description")), JsWrapper(JsString("Wall"))),
      Property(JsWrapper(JsString("q")), JsNull),
      Property(JsString("q"), JsWrapper(JsBoolean(FALSE))),
      RawProperty(FALSE, JsUndefined, JsUndefined) }

FieldsPalette ==
    { << >>,
      <<Entry("p", JsString("0"))>>,
      <<Entry("Description", JsWrapper(JsString("0"))), Entry("GlobalId", JsString("0")),
        Entry("r", JsNumber(1))>>,
      <<Entry("OwnerHistory", JsObject), Entry("r", JsWrapper(JsUndefined))>> }

QuantitySet(name, items, fields) ==
    RawPset(TRUE, name, "IfcElementQuantity", ArrayOf(items), NoArray, fields)

PropertySet(name, type, items, fields) ==
    RawPset(TRUE, name, type, NoArray, ArrayOf(items), fields)

DeepQuantityInputs ==
    { <<QuantitySet(JsWrapper(JsString("S")), items, fields)>> :
        items \in SeqsUpTo(QuantityPalette, MaxItems),
        fields \in {<< >>, <<Entry("p", JsString("Wall"))>>} }

DeepPropertyInputs ==
    { <<PropertySet(JsWrapper(JsString("P")), "IfcPropertySet", items, fields)>> :
        items \in SeqsUpTo(PropertyPalette, MaxItems), fields \in FieldsPalette }

RecordPalette ==
    { QuantitySet(JsWrapper(JsString("S")),
                  <<Quantity(JsString("a"), << >>,
                             [NoValues EXCEPT !["LengthValue"] = JsWrapper(JsNumber(2))])>>,
                  << >>),
      QuantitySet(JsWrapper(JsString("S")),
                  <<Quantity(JsString("b"), << >>,
                             [NoValues EXCEPT !["WeightValue"] = JsWrapper(JsNumber(1))])>>,
                  <<Entry("p", JsString("Wall"))>>),
      QuantitySet(JsWrapper(JsString("S")),
                  <<Quantity(JsString("a"), <<"Ifc", "Quantity", "Height">>, NoValues)>>,
                  << >>),
      QuantitySet(JsNumber(1),
                  <<Quantity(JsString("a"), << >>,
                             [NoValues EXCEPT !["LengthValue"] = JsWrapper(JsNumber(2))])>>,
                  << >>),
      PropertySet(JsWrapper(JsString("P")), "IfcPropertySet",
                  <<Property(JsWrapper(JsString("p")), JsWrapper(JsString("Wall")))>>, << >>),
      RawPset(TRUE, JsWrapper(JsString("P")), "IfcPropertySet", NoArray, NoArray,
              <<Entry("r", JsNumber(1))>>),
      RawPset(TRUE, JsUndefined, "IfcPropertySet",
              ArrayOf(<<Quantity(JsString("a"), << >>,
                                 [NoValues EXCEPT !["LengthValue"] = JsWrapper(JsNumber(2))])>>),
              NoArray, << >>),
      RawPset(TRUE, JsUndefined, "", NoArray, NoArray, <<Entry("r", JsNumber(1))>>),
      RawPset(FALSE, JsUndefined, "", NoArray, NoArray, << >>) }

WideInputs == SeqsUpTo(RecordPalette, MaxRecords)

PsetInputs == DeepQuantityInputs \cup DeepPropertyInputs \cup WideInputs

\* both formatters applied to the same definition records
FormatSets ==
    /\ ~formatted
    /\ quantitySets' = formatQuantitySets(rawPsets)
    /\ propertySets' = formatPropertySets(rawPsets)
    /\ formatted' = TRUE
    /\ UNCHANGED <<rawPsets, ghostVars, panelVars, extractVars, resolveVars, toolVars, registryVars>>

InitFormat ==
    /\ InitGhost /\ InitPanelIdle /\ InitExtractIdle /\ InitResolveIdle /\ InitRest
    /\ rawPsets \in PsetInputs
    /\ quantitySets = EmptyMap
    /\ propertySets = EmptyMap
    /\ formatted = FALSE

NextFormat == FormatSets

SpecFormat == InitFormat /\ [][NextFormat]_vars

(***************************************************************************)
(* The resolution of one element's bundle (the body of the loop of         *)
(* updatePropertiesPanel between the fetch and propsHtml.push).  A bundle  *)
(* is [attrs, type, IsTypedBy, ContainedInStructure, HasAssociations,      *)
(* IsDefinedBy]: attrs holds its attribute fields in order and each        *)
(* relation is [isArray, items].  A record of a relation is [isObj, Name,  *)
(* type, fields, HasPropertySets]; isObj is FALSE for a null entry, whose  *)
(* members cannot be read.  Each step yields what it computed and whether  *)
(* it raised.                                                              *)
(***************************************************************************)
Digit == <<"0", "1", "2", "3", "4", "5", "6", "7", "8", "9">>

RECURSIVE NatToString(_)
NatToString(n) ==
    IF n < Len(Digit) THEN Digit[n + 1]
    ELSE NatToString(n \div Len(Digit)) \o Digit[(n % Len(Digit)) + 1]

\* String(v) and `${v}`
StringOf(v) ==
    CASE v.kind = "string" -> v.str
      [] v.kind = "number" -> IF v.num < 0 THEN "-" \o NatToString(0 - v.num)
                              ELSE NatToString(v.num)
      [] v.kind = "boolean" -> IF v.bool THEN "true" ELSE "false"
      [] v.kind = "undefined" -> "undefined"
      [] v.kind = "null" -> "null"
      [] OTHER -> "[object Object]"

RelRecord(isObj, name, type, fields, hasPropertySets) ==
    [isObj |-> isObj, Name |-> name, type |-> type, fields |-> fields,
     HasPropertySets |-> hasPropertySets]

NullRecord == RelRecord(FALSE, JsUndefined, "", << >>, NoArray)

Bundle(attrs, type, isTypedBy, containedInStructure, hasAssociations, isDefinedBy) ==
    [attrs |-> attrs, type |-> type, IsTypedBy |-> isTypedBy,
     ContainedInStructure |-> containedInStructure,
     HasAssociations |-> hasAssociations, IsDefinedBy |-> isDefinedBy]

\* dataObj[key], undefined when the bundle has no such field
AttrOf(d, key) ==
    IF \E i \in DOMAIN d.attrs : d.attrs[i].key = key
    THEN d.attrs[CHOOSE i \in DOMAIN d.attrs : d.attrs[i].key = key].value
    ELSE JsUndefined

\* the keys of a record's properties in the order they were first assigned
RECURSIVE FirstOccurrences(_, _)
FirstOccurrences(keys, seen) ==
    IF keys = << >> THEN << >>
    ELSE IF Head(keys) \in seen THEN FirstOccurrences(Tail(keys), seen)
    ELSE <<Head(keys)>> \o FirstOccurrences(Tail(keys), seen \cup {Head(keys)})

RECURSIVE keysOfHasProperties(_)
keysOfHasProperties(items) ==
    IF items = << >> THEN << >>
    ELSE LET prop == Head(items)
             propName == extractValue(prop.Name)
             propValue == extractValue(prop.NominalValue)
         IN  IF prop.isObj /\ NamedBy(propName) /\ propValue.kind \notin {"undefined", "null"}
             THEN <<propName.str>> \o keysOfHasProperties(Tail(items))
             ELSE keysOfHasProperties(Tail(items))

RECURSIVE keysOfFields(_)
keysOfFields(entries) ==
    IF entries = << >> THEN << >>
    ELSE LET e == Head(entries)
             extracted == extractValue(e.value)
         IN  IF ~IsStructuralKey(e.key) /\ extracted.kind \notin {"null", "object", "array"}
             THEN <<e.key>> \o keysOfFields(Tail(entries))
             ELSE keysOfFields(Tail(entries))

\* Object.keys(props) for the props of one record
propKeysOf(psetObj) ==
    FirstOccurrences(
        (IF psetObj.HasProperties.isArray
         THEN keysOfHasProperties(psetObj.HasProperties.items) ELSE << >>)
        \o keysOfFields(OwnEntries(psetObj)), {})

\* Object.entries(props).map(([k, v]) => `${k}: ${v}`).join(", ")
RECURSIVE JoinProps(_, _)
JoinProps(keys, props) ==
    IF keys = << >> THEN ""
    ELSE Head(keys) \o ": " \o StringOf(props[Head(keys)])
         \o (IF Tail(keys) = << >> THEN "" ELSE ", " \o JoinProps(Tail(keys), props))

\* the record whose props formatPropertySets left under the set name: the
\* last one of that name that has a property
WinnerOf(psets, psetName) ==
    psets[CHOOSE i \in DOMAIN psets :
              /\ psets[i].isObj /\ ~QtyTagged(psets[i])
              /\ PsetNameOf(psets[i]) = JsString(psetName)
              /\ NonEmpty(propsOf(psets[i]))
              /\ \A j \in DOMAIN psets :
                     ( /\ j > i /\ psets[j].isObj /\ ~QtyTagged(psets[j])
                       /\ PsetNameOf(psets[j]) = JsString(psetName) )
                     => ~NonEmpty(propsOf(psets[j]))]

\* `[${psetName}]`
Bracketed(psetName) == "[" \o psetName \o "]"

\* the property sets of a type record flattened into typeProperties
withTypePsets(typeProperties, psets) ==
    LET typePsets == formatPropertySets(psets)
        flat == {Bracketed(n) : n \in DOMAIN typePsets}
    IN  [k \in DOMAIN typeProperties \cup flat |->
            IF k \in flat
            THEN LET n == CHOOSE m \in DOMAIN typePsets : Bracketed(m) = k
                 IN  JsString(JoinProps(propKeysOf(WinnerOf(psets, n)), typePsets[n]))
            ELSE typeProperties[k]]

\* a guard that lets everything through
GuardIgnored(rel) == TRUE

\* dataObj.X && Array.isArray(dataObj.X)
GuardedArray(rel) == rel.isArray

\* the keys the collection of direct attributes skips
IsSkipKey(key) ==
    key \in {"IsDefinedBy", "IsTypedBy", "ContainedInStructure", "HasAssociations",
             "Representation", "ObjectPlacement", "OwnerHistory", "type"}

\* the keys of a type record that are not type properties
IsTypeSkipKey(key) ==
    key \in {"Name", "type", "GlobalId", "OwnerHistory", "Description", "HasPropertySets"}

RelationEntry(key, rel) == IF rel.isArray THEN <<Entry(key, JsArray)>> ELSE << >>

\* Object.entries(dataObj)
BundleEntries(d) ==
    d.attrs
    \o (IF d.type # "" THEN <<Entry("type", JsString(d.type))>> ELSE << >>)
    \o RelationEntry("IsDefinedBy", d.IsDefinedBy)
    \o RelationEntry("IsTypedBy", d.IsTypedBy)
    \o RelationEntry("ContainedInStructure", d.ContainedInStructure)
    \o RelationEntry("HasAssociations", d.HasAssociations)

\* Object.entries(relObj)
RelEntries(relObj) ==
    (IF relObj.Name # JsUndefined THEN <<Entry("Name", relObj.Name)>> ELSE << >>)
    \o (IF relObj.type # "" THEN <<Entry("type", JsString(relObj.type))>> ELSE << >>)
    \o relObj.fields
    \o RelationEntry("HasPropertySets", relObj.HasPropertySets)

RECURSIVE directAttributesOf(_, _)
directAttributesOf(entries, directAttributes) ==
    IF entries = << >> THEN directAttributes
    ELSE LET e == Head(entries)
             extracted == extractValue(e.value)
         IN  IF /\ ~IsSkipKey(e.key)
                /\ e.value.kind \notin {"null", "undefined"}
                /\ extracted # JsNull
             THEN directAttributesOf(Tail(entries), MapPut(directAttributes, e.key, extracted))
             ELSE directAttributesOf(Tail(entries), directAttributes)

RECURSIVE typePropertiesOf(_, _)
typePropertiesOf(entries, typeProperties) ==
    IF entries = << >> THEN typeProperties
    ELSE LET e == Head(entries)
             extracted == extractValue(e.value)
         IN  IF IsTypeSkipKey(e.key) THEN typePropertiesOf(Tail(entries), typeProperties)
             ELSE IF extracted.kind \notin {"null", "object", "array"}
             THEN typePropertiesOf(Tail(entries), MapPut(typeProperties, e.key, extracted))
             ELSE typePropertiesOf(Tail(entries), typeProperties)

NoType == [thrown |-> FALSE, typeInfo |-> "", typeProperties |-> EmptyMap]

RECURSIVE typeLoop(_, _)
typeLoop(rels, acc) ==
    IF rels = << >> THEN acc
    ELSE LET relObj == Head(rels)
             typeName == extractValue(relObj.Name)
             fields == typePropertiesOf(RelEntries(relObj), acc.typeProperties)
         IN  IF ~relObj.isObj THEN [acc EXCEPT !.thrown = TRUE]
             ELSE typeLoop(Tail(rels),
                    [thrown |-> FALSE,
                     typeInfo |-> IF Truthy(typeName) THEN StringOf(typeName) ELSE acc.typeInfo,
                     typeProperties |->
                        IF relObj.HasPropertySets.isArray
                        THEN withTypePsets(fields, relObj.HasPropertySets.items)
                        ELSE fields])

\* type label and type properties; iterating what is not an array raises
typeResolution(d) ==
    IF ~GuardedArray(d.IsTypedBy) THEN NoType
    ELSE IF ~d.IsTypedBy.isArray THEN [NoType EXCEPT !.thrown = TRUE]
    ELSE typeLoop(d.IsTypedBy.items, NoType)

NoContainer == [thrown |-> FALSE, spatialContainer |-> ""]

RECURSIVE containerLoop(_)
containerLoop(rels) ==
    IF rels = << >> THEN NoContainer
    ELSE LET relObj == Head(rels)
             containerName == extractValue(relObj.Name)
         IN  IF ~relObj.isObj THEN [NoContainer EXCEPT !.thrown = TRUE]
             ELSE IF Truthy(containerName)
             THEN [thrown |-> FALSE, spatialContainer |-> StringOf(containerName)]
             ELSE containerLoop(Tail(rels))

spatialContainment(d) ==
    IF ~GuardedArray(d.ContainedInStructure) THEN NoContainer
    ELSE IF ~d.ContainedInStructure.isArray THEN [NoContainer EXCEPT !.thrown = TRUE]
    ELSE containerLoop(d.ContainedInStructure.items)

NoMaterials == [thrown |-> FALSE, materials |-> << >>]

RECURSIVE materialsLoop(_, _)
materialsLoop(rels, acc) ==
    IF rels = << >> THEN acc
    ELSE LET assocObj == Head(rels)
             matName == extractValue(assocObj.Name)
         IN  IF ~assocObj.isObj THEN [acc EXCEPT !.thrown = TRUE]
             ELSE IF assocObj.type = "IfcRelAssociatesMaterial" /\ Truthy(matName)
             THEN materialsLoop(Tail(rels),
                    [acc EXCEPT !.materials = Append(acc.materials, StringOf(matName))])
             ELSE materialsLoop(Tail(rels), acc)

materialsOf(d) ==
    IF ~GuardedArray(d.HasAssociations) THEN NoMaterials
    ELSE IF ~d.HasAssociations.isArray THEN [NoMaterials EXCEPT !.thrown = TRUE]
    ELSE materialsLoop(d.HasAssociations.items, NoMaterials)

NoSets == [thrown |-> FALSE, sets |-> EmptyMap]

\* the property sets shown: IsDefinedBy must be a non-empty array
propertySetsOf(d) ==
    IF ~GuardedArray(d.IsDefinedBy) THEN NoSets
    ELSE IF ~d.IsDefinedBy.isArray THEN [NoSets EXCEPT !.thrown = TRUE]
    ELSE IF Len(d.IsDefinedBy.items) > 0
    THEN [thrown |-> FALSE, sets |-> formatPropertySets(d.IsDefinedBy.items)]
    ELSE NoSets

\* the quantity sets shown
quantitySetsOf(d) ==
    IF ~GuardedArray(d.IsDefinedBy) THEN NoSets
    ELSE IF ~d.IsDefinedBy.isArray THEN [NoSets EXCEPT !.thrown = TRUE]
    ELSE [thrown |-> FALSE, sets |-> formatQuantitySets(d.IsDefinedBy.items)]

\* the id of the element being resolved
LocalId == 1

NoRelation(d) ==
    /\ ~d.IsTypedBy.isArray /\ ~d.ContainedInStructure.isArray
    /\ ~d.HasAssociations.isArray /\ ~d.IsDefinedBy.isArray

\* a bundle without any key becomes { type: "Unknown" }
WithMinimalEntry(d) ==
    IF d.attrs = << >> /\ d.type = "" /\ NoRelation(d)
    THEN Bundle(<< >>, "Unknown", NoArray, NoArray, NoArray, NoArray)
    ELSE d

\* extractValue(dataObj.Name) || dataObj.type || `Element ${localId}`
nameOf(d) ==
    LET n == extractValue(AttrOf(d, "Name"))
    IN  IF Truthy(n) THEN n
        ELSE IF d.type # "" THEN JsString(d.type)
        ELSE JsString("Element " \o StringOf(JsNumber(LocalId)))

\* what the resolution of a bundle computes before the markup is built, and
\* whether one of its steps raised
resolveElement(fetched) ==
    LET d == WithMinimalEntry(fetched)
        t == typeResolution(d)
        c == spatialContainment(d)
        m == materialsOf(d)
        ps == propertySetsOf(d)
        qs == quantitySetsOf(d)
    IN  [thrown |-> t.thrown \/ c.thrown \/ m.thrown \/ ps.thrown \/ qs.thrown,
         name |-> nameOf(d),
         globalId |-> extractValue(AttrOf(d, "GlobalId")),
         objectType |-> extractValue(AttrOf(d, "ObjectType")),
         description |-> extractValue(AttrOf(d, "Description")),
         tag |-> extractValue(AttrOf(d, "Tag")),
         predefinedType |-> extractValue(AttrOf(d, "PredefinedType")),
         longName |-> extractValue(AttrOf(d, "LongName")),
         ifcClass |-> d.type,
         directAttributes |-> directAttributesOf(BundleEntries(d), EmptyMap),
         typeInfo |-> t.typeInfo,
         typeProperties |-> t.typeProperties,
         spatialContainer |-> c.spatialContainer,
         materials |-> m.materials,
         propertySets |-> ps.sets,
         quantitySets |-> qs.sets]

(***************************************************************************)
(* The bundles resolved: every combination of a few attribute lists, kind  *)
(* tags and relations, the type relation with any short sequence of type   *)
(* records.                                                                *)
(***************************************************************************)
AttrsPalette ==
    { << >>,
      <<Entry("Name", JsWrapper(JsString("Wall"))), Entry("GlobalId", JsWrapper(JsString("0"))),
        Entry("Tag", JsNumber(1))>>,
      <<Entry("Name", JsNull), Entry("Description", JsString("Wall")),
        Entry("Representation", JsObject), Entry("LoadBearing", JsWrapper(JsBoolean(FALSE)))>> }

TypePalette ==
    { RelRecord(TRUE, JsWrapper(JsString("A")), "IfcWallType",
                <<Entry("k", JsNumber(1))>>, NoArray),
      RelRecord(TRUE, JsWrapper(JsString("B")), "IfcWallType",
                <<Entry("k", JsNumber(2)), Entry("Description", JsString("Wall"))>>,
                ArrayOf(<<PropertySet(JsWrapper(JsString("P")), "IfcPropertySet",
                                      <<Property(JsWrapper(JsString("p")), JsWrapper(JsString("Wall")))>>,
                                      <<Entry("r", JsNumber(1))>>)>>)),
      RelRecord(TRUE, JsUndefined, "", <<Entry("j", JsWrapper(JsString("0")))>>, NoArray),
      RelRecord(TRUE, JsNumber(1), "", << >>, NoArray),
      NullRecord }

ContainmentPalette ==
    { NoArray,
      ArrayOf(<<RelRecord(TRUE, JsUndefined, "IfcRelContainedInSpatialStructure", << >>, NoArray),
                RelRecord(TRUE, JsWrapper(JsString("Floor")), "IfcBuildingStorey", << >>, NoArray),
                RelRecord(TRUE, JsWrapper(JsString("Site")), "IfcSite", << >>, NoArray)>>),
      ArrayOf(<<NullRecord>>) }

AssociationPalette ==
    { NoArray,
      ArrayOf(<<RelRecord(TRUE, JsWrapper(JsString("M")), "IfcRelAssociatesMaterial", << >>, NoArray),
                RelRecord(TRUE, JsWrapper(JsString("C")), "IfcRelAssociatesClassification", << >>, NoArray),
                RelRecord(TRUE, JsUndefined, "IfcRelAssociatesMaterial", << >>, NoArray),
                RelRecord(TRUE, JsString("N"), "IfcRelAssociatesMaterial", << >>, NoArray)>>) }

DefinitionPalette ==
    { NoArray,
      ArrayOf(<< >>),
      ArrayOf(<<PropertySet(JsWrapper(JsString("P")), "IfcPropertySet",
                            <<Property(JsWrapper(JsString("p")), JsWrapper(JsString("Wall")))>>, << >>),
                QuantitySet(JsWrapper(JsString("S")),
                            <<Quantity(JsString("a"), << >>,
                                       [NoValues EXCEPT !["LengthValue"] = JsWrapper(JsNumber(2))])>>,
                            << >>)>>) }

TypeRelations == {NoArray} \cup {ArrayOf(rels) : rels \in SeqsUpTo(TypePalette, MaxTypes)}

ElementInputs ==
    { Bundle(attrs, type, typed, contained, assoc, defined) :
        attrs \in AttrsPalette, type \in {"", "IfcWall"}, typed \in TypeRelations,
        contained \in ContainmentPalette, assoc \in AssociationPalette,
        defined \in DefinitionPalette }

\* the bundle of the element is resolved; a step that raises leaves nothing
Resolve ==
    /\ resolved = "pending"
    /\ LET r == resolveElement(dataObj)
       IN  /\ resolved' = IF r.thrown THEN "thrown" ELSE "done"
           /\ viewModel' = IF r.thrown THEN << >> ELSE r
    /\ UNCHANGED <<dataObj, ghostVars, panelVars, extractVars, formatVars, toolVars, registryVars>>

InitResolve ==
    /\ InitGhost /\ InitPanelIdle /\ InitExtractIdle /\ InitFormatIdle /\ InitRest
    /\ dataObj \in ElementInputs
    /\ viewModel = << >>
    /\ resolved = "pending"

NextResolve == Resolve

SpecResolve == InitResolve /\ [][NextResolve]_vars

(***************************************************************************)
(* Tool management: setTool, called by the three tool buttons and, with    *)
(* null, by the Escape key.                                                *)
(***************************************************************************)
Tools == {"clipper", "length", "area"}

\* a setTool that does not disable the tools first
setToolKeepingOthers(tool) ==
    IF tool = activeTool
    THEN /\ activeTool' = "null"
         /\ UNCHANGED <<clipper, lengthMeasurer, areaMeasurer>>
         /\ highlighter' = TRUE
         /\ toolButton' = "null"
    ELSE /\ activeTool' = tool
         /\ clipper' = (clipper \/ tool = "clipper")
         /\ lengthMeasurer' = (lengthMeasurer \/ tool = "length")
         /\ areaMeasurer' = (areaMeasurer \/ tool = "area")
         /\ highlighter' = (tool \notin Tools)
         /\ toolButton' = tool

setTool(tool) ==
    IF tool = activeTool
    THEN /\ activeTool' = "null"
         /\ clipper' = FALSE
         /\ lengthMeasurer' = FALSE
         /\ areaMeasurer' = FALSE
         /\ highlighter' = TRUE
         /\ toolButton' = "null"
    ELSE /\ activeTool' = tool
         /\ clipper' = (tool = "clipper")
         /\ lengthMeasurer' = (tool = "length")
         /\ areaMeasurer' = (tool = "area")
         /\ highlighter' = (tool \notin Tools)
         /\ toolButton' = tool

\* a click on one of the tool buttons
ClickTool(tool) ==
    /\ Len(toolLog) < MaxToolCalls
    /\ setTool(tool)
    /\ toolLog' = Append(toolLog, tool)
    /\ UNCHANGED <<ghostVars, panelVars, extractVars, formatVars, resolveVars, registryVars>>

\* keydown with code Escape
PressEscape ==
    /\ Len(toolLog) < MaxToolCalls
    /\ setTool("null")
    /\ toolLog' = Append(toolLog, "null")
    /\ UNCHANGED <<ghostVars, panelVars, extractVars, formatVars, resolveVars, registryVars>>

NextTools ==
    \/ \E tool \in Tools : ClickTool(tool)
    \/ PressEscape

SpecTools == Init /\ [][NextTools]_vars

(***************************************************************************)
(* Model loading and the models list.  fragments.list is fragList; a load  *)
(* sets the model under its id, the id being the file name.  The onItemSet *)
(* handler runs up to its await and registers the model when it resumes;   *)
(* several handlers may be suspended and resume in any order.  The list    *)
(* belongs to the fragments library: setting a key that is new to it runs  *)
(* the handler, and whether setting a key it already holds runs the        *)
(* handler again is decided by the library, so both outcomes are taken.    *)
(***************************************************************************)
\* whether fragments.list.set(modelId, model) may run the onItemSet handler
ItemSetOutcomes(modelId) == IF modelId \in fragList THEN {TRUE, FALSE} ELSE {TRUE}

\* a load ends in fragments.list.set; the handler, if run, runs up to
\* await fragments.core.update(true)
LoadModel(modelId) ==
    /\ Len(registryLog) < MaxRegistryEvents
    /\ fragList' = fragList \cup {modelId}
    /\ \E fires \in ItemSetOutcomes(modelId) :
          loadHandlers' = IF fires THEN Append(loadHandlers, modelId) ELSE loadHandlers
    /\ registryLog' = Append(registryLog, Event("load", modelId))
    /\ UNCHANGED <<loadedModels, modelsListContainer, deleteButtons, propsContainer, batches,
                   ghostVars, extractVars, formatVars, resolveVars, toolVars>>

\* handler h resumes after its await: loadedModels.set and updateModelsList
HandlerResumes(h) ==
    /\ loadedModels' = loadedModels \cup {loadHandlers[h]}
    /\ deleteButtons' = ButtonsFor(modelsListContainer, loadedModels', deleteButtons)
    /\ loadHandlers' = SubSeq(loadHandlers, 1, h - 1)
                       \o SubSeq(loadHandlers, h + 1, Len(loadHandlers))
    /\ registryLog' = Append(registryLog, Event("register", loadHandlers[h]))
    /\ UNCHANGED <<fragList, modelsListContainer, propsContainer, batches,
                   ghostVars, extractVars, formatVars, resolveVars, toolVars>>

NextRegistry ==
    \/ LayoutTimer
    \/ \E modelId \in Models : LoadModel(modelId)
    \/ \E h \in DOMAIN loadHandlers : HandlerResumes(h)
    \/ \E modelId \in Models : ClickDelete(modelId)

SpecRegistry == Init /\ [][NextRegistry]_vars

(***************************************************************************)
(* Ghost mode: the claims.                                                 *)
(***************************************************************************)

\* the material carries the opt-out marker
CarriesCustomId(mat) == mat.customId # ""

\* the last two ghost-engine operations were an activation and then a restore
RoundTripDone == ghostOps = <<"activate", "restore">>

\* C1: ghost mode round trip.  Right after an activation from NORMAL followed
\* immediately by a deactivation, every material of the list without customId
\* has exactly the colour (either shape), transparent flag and opacity it had
\* before the activation.
C1_GhostRoundTrip ==
    RoundTripDone =>
        \A m \in DOMAIN preGhost :
            ~CarriesCustomId(preGhost[m]) => Appearance(materials[m]) = Appearance(preGhost[m])

\* a round trip over a solid and a level-of-detail material, neither opted
\* out, both of which the activation changed
C1_Witness ==
    /\ RoundTripDone
    /\ \E m, n \in DOMAIN preGhost :
          /\ preGhost[m].hasColor /\ ~preGhost[n].hasColor
          /\ ~CarriesCustomId(preGhost[m]) /\ ~CarriesCustomId(preGhost[n])
          /\ Appearance(Ghosted(preGhost[m])) # Appearance(preGhost[m])
          /\ Appearance(Ghosted(preGhost[n])) # Appearance(preGhost[n])

\* C2: a material carrying the opt-out marker (a truthy userData.customId) is
\* never in the originalColors snapshot and is, after any sequence of ghost
\* toggles, exactly as it was when it entered the material list.
C2_OptOutUntouched ==
    \A m \in DOMAIN materials :
        CarriesCustomId(loadedAs[m]) =>
            /\ m \notin DOMAIN originalColors
            /\ materials[m] = loadedAs[m]

\* an opted-out material that has been through an activation and a restore,
\* beside a material that was ghosted and restored, and is now ghosted again
C2_Witness ==
    /\ presses >= 3
    /\ ghostModeEnabled
    /\ \E m, n \in DOMAIN preGhost :
          /\ CarriesCustomId(loadedAs[m])
          /\ Appearance(Ghosted(loadedAs[m])) # Appearance(loadedAs[m])
          /\ n \in DOMAIN originalColors

C4_SnapshotEmptyWhenOff ==
    /\ [](~ghostModeEnabled => originalColors = << >>)
    /\ [][(ghostModeEnabled /\ ~ghostModeEnabled') =>
            /\ originalColors' = << >>
            /\ \A m \in DOMAIN originalColors :
                  Snapshot(materials'[m]) = originalColors[m]]_vars

\* ghost mode is off again after a deactivation that had two snapshots to
\* restore
C4_Witness ==
    /\ ~ghostModeEnabled
    /\ Len(ghostOps) = 2 /\ ghostOps[2] = "restore"
    /\ Cardinality(GhostTargets(preGhost)) >= 2

\* C5: each press of the toggle performs the one transition the current state
\* selects, so after n presses the mode is GHOSTED iff n is odd.
C5_TogglePerPress ==
    /\ [](ghostModeEnabled <=> (presses % 2 = 1))
    /\ [][presses' # presses =>
            /\ presses' = presses + 1
            /\ ghostModeEnabled' = ~ghostModeEnabled
            /\ ghostOps'[Len(ghostOps')] =
                  (IF ghostModeEnabled THEN "restore" ELSE "activate")]_vars

\* three presses: activated, restored, activated again
C5_Witness == presses = 3 /\ ghostModeEnabled /\ Len(materials) > 0

(***************************************************************************)
(* The properties panel: the claims.                                       *)
(***************************************************************************)

\* the invocation started last
Latest == Len(batches)

\* the element an entry of the panel stands for
KeyOf(entry) == <<entry.model, entry.id>>

\* the position of element el in sequence els
IndexIn(els, el) == CHOOSE i \in DOMAIN els : els[i] = el

\* the entries of a sequence of panel entries that stand for element el
EntriesOf(items, el) == { i \in DOMAIN items : KeyOf(items[i]) = el }

\* C6: stale-batch suppression.  When the latest invocation B has a non-empty
\* selection and started while an earlier invocation A was still awaiting
\* fetches, nothing of A is written after B started: the panel shows B's
\* loading text until B completes and B's output from then on.
C6_StaleBatchSuppressed ==
    (Latest >= 1 /\ batches[Latest].sel # << >> /\ batches[Latest].superseded # {}) =>
        propsContainer = (IF batches[Latest].pc = "done" THEN batches[Latest].written
                          ELSE Panel("loading", << >>))

\* C7: when the latest invocation is a selection clear that arrived while an
\* earlier batch was still awaiting fetches, the panel shows the cleared
\* placeholder; the superseded batch's result is never written after it.
C7_ClearWins ==
    (Latest >= 1 /\ batches[Latest].sel = << >> /\ batches[Latest].superseded # {}) =>
        propsContainer = Panel("select", << >>)

\* C8: an element whose getItemsData call raised is omitted from the output
\* its batch renders.
C8_RaisedElementOmitted ==
    \A b \in DOMAIN batches :
        batches[b].pc = "done" =>
            \A k \in DOMAIN batches[b].outs :
                batches[b].outs[k] = "raise" =>
                    EntriesOf(batches[b].written.items, batches[b].fetched[k]) = {}

\* C9: a batch writes its element output only once every fetch of the batch
\* has completed (while it awaits it has written nothing, and whatever
\* elements the panel shows are the final output of a completed batch), and
\* the output holds one entry per resolved element, in selection order.
C9_RenderAfterAllFetches ==
    /\ propsContainer.kind = "elements" =>
          \E b \in DOMAIN batches :
              batches[b].pc = "done" /\ propsContainer = batches[b].written
    /\ \A b \in DOMAIN batches :
          LET B == batches[b]
              els == Flatten(B.sel)
              items == B.written.items
          IN  /\ B.pc = "await" => B.written = NothingWritten
              /\ (B.pc = "done" /\ B.sel # << >>) =>
                    /\ Len(B.outs) = Len(B.fetched)
                    /\ \A i \in DOMAIN els :
                          els[i][1] \in fragList =>
                              \E k \in DOMAIN B.fetched : B.fetched[k] = els[i]
                    /\ B.written.kind = (IF items = << >> THEN "failed" ELSE "elements")
                    /\ Len(items) = Cardinality({k \in DOMAIN B.outs : B.outs[k] # "bad"})
                    /\ \A i \in DOMAIN items : \E j \in DOMAIN els : els[j] = KeyOf(items[i])
                    /\ \A i, j \in DOMAIN items :
                          i < j => IndexIn(els, KeyOf(items[i])) < IndexIn(els, KeyOf(items[j]))

\* a completed batch over two models, the second listed first in the
\* mapping, with both elements rendered
C9_Witness ==
    \E b \in DOMAIN batches :
        /\ batches[b].pc = "done"
        /\ Len(batches[b].sel) = 2
        /\ Len(batches[b].written.items) = 2
        /\ propsContainer = batches[b].written


(***************************************************************************)
(* extractValue: the claims.                                               *)
(***************************************************************************)

\* C10: extractValue is idempotent on scalars: given a bare string, number or
\* boolean (0, false and the empty string included) it returns that value.
C10_ScalarsUnchanged ==
    (applied >= 1 /\ IsScalar(attrIn)) => attr = attrIn

\* the value member of a wrapper
MemberOf(w) == JsVal(w.inner, w.num, w.str, w.bool, "")

ScalarOrNull(v) == IsScalar(v) \/ v = JsNull

\* C11 as stated: for every input extractValue returns a string, number or
\* boolean or null; a wrapper returns exactly its value member and a shape
\* that is neither a scalar nor a wrapper returns null.
C11_AlwaysScalarOrNull ==
    applied = 1 =>
        /\ ScalarOrNull(attr)
        /\ attrIn.kind = "wrapper" => attr = MemberOf(attrIn)
        /\ attrIn.kind \in {"undefined", "null", "object", "array"} => attr = JsNull

\* C11 as amended: a wrapper returns exactly its value member whatever that
\* is; a shape that is neither a scalar nor a wrapper returns null; and the
\* result is a string, number or boolean or null for every input whose value
\* member, if it has one, is one of these.
C11_ScalarOrNullUnlessMemberIsNot ==
    applied = 1 =>
        /\ attrIn.kind = "wrapper" => attr = MemberOf(attrIn)
        /\ attrIn.kind \in {"undefined", "null", "object", "array"} => attr = JsNull
        /\ (attrIn.kind = "wrapper" => ScalarOrNull(MemberOf(attrIn))) => ScalarOrNull(attr)

\* a wrapper around the number 0 has been unwrapped to 0
C11_Witness ==
    applied = 1 /\ attrIn = JsWrapper(JsNumber(0)) /\ attr = JsNumber(0)

(***************************************************************************)
(* The quantity formatter: the claims.                                     *)
(***************************************************************************)
UnitTable == {"m", "m2", "m3", "kg", "ud", "s", ""}

\* the six value fields in the order they are probed, and their units
ProbeOrder ==
    <<"LengthValue", "AreaValue", "VolumeValue", "WeightValue", "CountValue", "TimeValue">>
ProbeUnit ==
    [f \in ValueFields |->
        CASE f = "LengthValue" -> "m" [] f = "AreaValue" -> "m2" [] f = "VolumeValue" -> "m3"
          [] f = "WeightValue" -> "kg" [] f = "CountValue" -> "ud" [] f = "TimeValue" -> "s"]

\* the field holds something: it is there and it is not null
Holds(q, f) == q.vals[f].kind \notin {"undefined", "null"}
Populated(q) == \E f \in ValueFields : Holds(q, f)

\* record i of rawPsets is a quantity set the formatter reads, and the only
\* one of rawPsets with its name
IsQuantitySet(i) ==
    /\ rawPsets[i].isObj
    /\ rawPsets[i].type = "IfcElementQuantity"
    /\ NamedBy(extractValue(rawPsets[i].Name))
    /\ rawPsets[i].Quantities.isArray
SetName(i) == extractValue(rawPsets[i].Name).str
OnlySetNamed(i) ==
    /\ IsQuantitySet(i)
    /\ \A j \in DOMAIN rawPsets : j # i /\ IsQuantitySet(j) => SetName(j) # SetName(i)

SubRecords(i) == rawPsets[i].Quantities.items
\* sub-record j of record i carries the name n
SubNamed(i, j, n) ==
    /\ SubRecords(i)[j].isObj
    /\ NamedBy(extractValue(SubRecords(i)[j].Name))
    /\ extractValue(SubRecords(i)[j].Name).str = n
SubNames(i) ==
    {extractValue(SubRecords(i)[j].Name).str :
        j \in {k \in DOMAIN SubRecords(i) :
                 SubRecords(i)[k].isObj /\ NamedBy(extractValue(SubRecords(i)[k].Name))}}

\* the entry of quantity n of set s in the output, "none" when there is none
NoEntry == [value |-> JsUndefined, unit |-> "none"]
EntryOf(s, n) ==
    IF s \in DOMAIN quantitySets /\ n \in DOMAIN quantitySets[s]
    THEN quantitySets[s][n] ELSE NoEntry

\* C12: every quantity emitted by formatQuantitySets has a numeric value and
\* a unit of the unit table, and comes from a sub-record of that name with a
\* populated value field: a sub-record without one is dropped, also when its
\* type name lets a unit be inferred.
C12_EmittedQuantitiesHaveValues ==
    formatted =>
        \A s \in DOMAIN quantitySets : \A n \in DOMAIN quantitySets[s] :
            /\ quantitySets[s][n].value.kind = "number"
            /\ quantitySets[s][n].unit \in UnitTable
            /\ \E i \in DOMAIN rawPsets :
                   /\ IsQuantitySet(i) /\ SetName(i) = s
                   /\ \E j \in DOMAIN SubRecords(i) :
                          SubNamed(i, j, n) /\ Populated(SubRecords(i)[j])

\* a set was emitted without its sub-record that has no value field but a
\* type name from which a unit is inferred
C12_Witness ==
    /\ formatted
    /\ \E i \in DOMAIN rawPsets : \E j \in DOMAIN SubRecords(i) :
           /\ OnlySetNamed(i)
           /\ SubNamed(i, j, "a")
           /\ ~Populated(SubRecords(i)[j])
           /\ getQuantityUnit(SubRecords(i)[j].type) = "m"
           /\ SetName(i) \in DOMAIN quantitySets
           /\ EntryOf(SetName(i), "a") = NoEntry

\* the first value field of q, in probe order, that is not null
FirstHeld(q) ==
    ProbeOrder[CHOOSE k \in DOMAIN ProbeOrder :
                  /\ Holds(q, ProbeOrder[k])
                  /\ \A l \in DOMAIN ProbeOrder : l < k => ~Holds(q, ProbeOrder[l])]

\* C13: value and unit come from the first of the six value fields, in the
\* order Length, Area, Volume, Weight, Count, Time, that is not null, paired
\* with that field's unit; a field that is present but null does not stop
\* the probe.
C13_FirstNonNullWins ==
    formatted =>
        \A i \in DOMAIN rawPsets : OnlySetNamed(i) =>
            \A j \in DOMAIN SubRecords(i) : \A n \in SubNames(i) :
                ( /\ SubNamed(i, j, n)
                  /\ \A k \in DOMAIN SubRecords(i) : k # j => ~SubNamed(i, k, n)
                  /\ Populated(SubRecords(i)[j])
                  /\ extractValue(SubRecords(i)[j].vals[FirstHeld(SubRecords(i)[j])]).kind = "number" )
                => EntryOf(SetName(i), n) =
                       [value |-> extractValue(SubRecords(i)[j].vals[FirstHeld(SubRecords(i)[j])]),
                        unit |-> ProbeUnit[FirstHeld(SubRecords(i)[j])]]

\* j is the last sub-record of record i with the name n
LastNamed(i, j, n) ==
    /\ SubNamed(i, j, n)
    /\ \A k \in DOMAIN SubRecords(i) : k > j => ~SubNamed(i, k, n)

\* j is the last sub-record of record i with the name n that yields a number
LastYielding(i, j, n) ==
    /\ SubNamed(i, j, n)
    /\ ValueAndUnit(SubRecords(i)[j]).value.kind = "number"
    /\ \A k \in DOMAIN SubRecords(i) :
           k > j /\ SubNamed(i, k, n) => ValueAndUnit(SubRecords(i)[k]).value.kind # "number"

\* C14 as stated: when two sub-records of a quantity set carry the same
\* name, the entry of that name in the output is the one derived from the
\* later sub-record.
C14_LaterSubRecordWins ==
    formatted =>
        \A i \in DOMAIN rawPsets : OnlySetNamed(i) =>
            \A j \in DOMAIN SubRecords(i) : \A n \in SubNames(i) :
                ( /\ LastNamed(i, j, n)
                  /\ \E k \in DOMAIN SubRecords(i) : k < j /\ SubNamed(i, k, n)
                  /\ EntryOf(SetName(i), n) # NoEntry )
                => EntryOf(SetName(i), n) = ValueAndUnit(SubRecords(i)[j])

\* C14 as amended: when two sub-records of a quantity set carry the same
\* name, the entry of that name in the output is the one derived from the
\* last of them that yields a numeric value.
C14_LaterYieldingSubRecordWins ==
    formatted =>
        \A i \in DOMAIN rawPsets : OnlySetNamed(i) =>
            \A j \in DOMAIN SubRecords(i) : \A n \in SubNames(i) :
                ( /\ LastYielding(i, j, n)
                  /\ \E k \in DOMAIN SubRecords(i) : k # j /\ SubNamed(i, k, n) )
                => EntryOf(SetName(i), n) = ValueAndUnit(SubRecords(i)[j])

\* two sub-records named "a" yield different quantities and the output has
\* the later one's
C14_Witness ==
    /\ formatted
    /\ \E i \in DOMAIN rawPsets : \E j, k \in DOMAIN SubRecords(i) :
           /\ OnlySetNamed(i)
           /\ j < k /\ SubNamed(i, j, "a") /\ LastYielding(i, k, "a")
           /\ ValueAndUnit(SubRecords(i)[j]).value.kind = "number"
           /\ ValueAndUnit(SubRecords(i)[j]) # ValueAndUnit(SubRecords(i)[k])
           /\ EntryOf(SetName(i), "a") = ValueAndUnit(SubRecords(i)[k])

(***************************************************************************)
(* The property formatter and the two formatters together: the claims.     *)
(***************************************************************************)
StructuralKeys == {"Name", "type", "HasProperties", "GlobalId", "OwnerHistory", "Description"}

CarriesQuantityTag(psetObj) == psetObj.type = "IfcElementQuantity"

\* record i of rawPsets is a property set the formatter reads
IsPropertySet(i) ==
    /\ rawPsets[i].isObj
    /\ ~CarriesQuantityTag(rawPsets[i])
    /\ PsetNameOf(rawPsets[i]).kind = "string"
PsetName(i) == PsetNameOf(rawPsets[i]).str
OnlyPsetNamed(i) ==
    /\ IsPropertySet(i)
    /\ \A j \in DOMAIN rawPsets : j # i /\ IsPropertySet(j) => PsetName(j) # PsetName(i)

SubProperties(i) ==
    IF rawPsets[i].HasProperties.isArray THEN rawPsets[i].HasProperties.items ELSE << >>
\* sub-record j of record i is named k
SubPropertyNamed(i, j, k) ==
    /\ SubProperties(i)[j].isObj
    /\ extractValue(SubProperties(i)[j].Name) = JsString(k)
\* sub-record j of record i defines a property k that survives
SubPropertySurvives(i, j, k) ==
    /\ SubPropertyNamed(i, j, k)
    /\ k # ""
    /\ extractValue(SubProperties(i)[j].NominalValue).kind \notin {"undefined", "null"}
\* direct field j of record i defines a scalar property k that survives
FieldSurvives(i, j, k) ==
    /\ rawPsets[i].fields[j].key = k
    /\ k \notin StructuralKeys
    /\ IsScalar(extractValue(rawPsets[i].fields[j].value))

PropertyNames == {"p", "q", "r"} \cup StructuralKeys

\* property k of set s in the output, NoProperty when there is none
NoProperty == JsVal("none", 0, "", FALSE, "")
PropertyOf(s, k) ==
    IF s \in DOMAIN propertySets /\ k \in DOMAIN propertySets[s]
    THEN propertySets[s][k] ELSE NoProperty

\* C15: neither formatter emits an empty set: every quantity set of
\* formatQuantitySets' result has at least one quantity and every property
\* set of formatPropertySets' result has at least one property.
C15_NoEmptySets ==
    formatted =>
        /\ \A s \in DOMAIN quantitySets : DOMAIN quantitySets[s] # {}
        /\ \A s \in DOMAIN propertySets : DOMAIN propertySets[s] # {}

\* a quantity set none of whose sub-records survives and a property set
\* without a surviving property were both formatted, and neither is in the
\* output
C15_Witness ==
    /\ formatted
    /\ \E i, j \in DOMAIN rawPsets :
           /\ OnlySetNamed(i)
           /\ SubRecords(i) # << >>
           /\ \A k \in DOMAIN SubRecords(i) : ~Populated(SubRecords(i)[k])
           /\ SetName(i) \notin DOMAIN quantitySets
           /\ OnlyPsetNamed(j)
           /\ SubProperties(j) = << >> /\ rawPsets[j].fields = << >>
           /\ PsetName(j) \notin DOMAIN propertySets

Tagged(psets) == SelectSeq(psets, LAMBDA r : r.isObj /\ CarriesQuantityTag(r))
Untagged(psets) == SelectSeq(psets, LAMBDA r : ~(r.isObj /\ CarriesQuantityTag(r)))

\* C16: the formatters partition the records by kind.  The output of
\* formatPropertySets is what it returns for the records not tagged
\* IfcElementQuantity alone, and each of its sets is named by such a record;
\* the output of formatQuantitySets is what it returns for the tagged
\* records alone, and each of its sets is named by a tagged record.
C16_PartitionByKind ==
    formatted =>
        /\ propertySets = formatPropertySets(Untagged(rawPsets))
        /\ quantitySets = formatQuantitySets(Tagged(rawPsets))
        /\ \A s \in DOMAIN propertySets :
               \E i \in DOMAIN rawPsets : IsPropertySet(i) /\ PsetName(i) = s
        /\ \A s \in DOMAIN quantitySets :
               \E i \in DOMAIN rawPsets : IsQuantitySet(i) /\ SetName(i) = s

\* a tagged record with a plain scalar field left nothing in the property
\* sets, and an untagged record with a populated quantity left nothing in
\* the quantity sets
C16_Witness ==
    /\ formatted
    /\ \E i, j \in DOMAIN rawPsets :
           /\ IsQuantitySet(i)
           /\ \E f \in DOMAIN rawPsets[i].fields :
                  IsScalar(extractValue(rawPsets[i].fields[f].value))
           /\ SetName(i) \in DOMAIN quantitySets
           /\ SetName(i) \notin DOMAIN propertySets
           /\ IsPropertySet(j)
           /\ rawPsets[j].Quantities.isArray
           /\ \E k \in DOMAIN rawPsets[j].Quantities.items :
                  Populated(rawPsets[j].Quantities.items[k])
           /\ PsetName(j) \notin DOMAIN quantitySets

\* C17 as stated: none of the six structural keys is a property name in any
\* property set returned by formatPropertySets, whether the property came
\* from the HasProperties sub-records or from direct fields.
C17_NoStructuralKeys ==
    formatted =>
        \A s \in DOMAIN propertySets : DOMAIN propertySets[s] \cap StructuralKeys = {}

\* C17 as amended: a structural key is a property name in a returned
\* property set only as the name of a HasProperties sub-record, with that
\* sub-record's value; a direct field under a structural key is never
\* emitted.
C17_StructuralKeysOnlyFromSubRecords ==
    formatted =>
        \A s \in DOMAIN propertySets : \A k \in DOMAIN propertySets[s] \cap StructuralKeys :
            \E i \in DOMAIN rawPsets : \E j \in DOMAIN SubProperties(i) :
                /\ IsPropertySet(i) /\ PsetName(i) = s
                /\ SubPropertySurvives(i, j, k)
                /\ propertySets[s][k] = extractValue(SubProperties(i)[j].NominalValue)

\* a record with scalar direct fields Description and GlobalId was emitted
\* with its other direct field only
C17_Witness ==
    /\ formatted
    /\ \E i \in DOMAIN rawPsets :
           /\ OnlyPsetNamed(i)
           /\ \E f, g \in DOMAIN rawPsets[i].fields :
                  /\ rawPsets[i].fields[f].key = "Description"
                  /\ IsScalar(extractValue(rawPsets[i].fields[f].value))
                  /\ FieldSurvives(i, g, "r")
           /\ \A j \in DOMAIN SubProperties(i) : ~SubPropertyNamed(i, j, "Description")
           /\ PropertyOf(PsetName(i), "r") # NoProperty
           /\ PropertyOf(PsetName(i), "Description") = NoProperty

\* within record i: every surviving property of either encoding is in the
\* output under the record's set name, a direct field with its own value
AdditiveWithin(i) ==
    \A k \in PropertyNames :
        /\ (\E j \in DOMAIN SubProperties(i) : SubPropertySurvives(i, j, k))
               => PropertyOf(PsetName(i), k) # NoProperty
        /\ \A j \in DOMAIN rawPsets[i].fields :
               FieldSurvives(i, j, k)
               => PropertyOf(PsetName(i), k) = extractValue(rawPsets[i].fields[j].value)

\* C18 as stated: the properties of the HasProperties sub-records and of the
\* direct scalar fields are merged into one mapping per property-set name:
\* every surviving property of either encoding for that set name is in the
\* output, and a direct field wins over a sub-record of the same name.
C18_AdditivePerSetName ==
    formatted => \A i \in DOMAIN rawPsets : IsPropertySet(i) => AdditiveWithin(i)

\* record i has a property that is emitted
HasSurvivor(i) ==
    \/ \E k \in PropertyNames : \E j \in DOMAIN SubProperties(i) : SubPropertySurvives(i, j, k)
    \/ \E j \in DOMAIN rawPsets[i].fields :
           /\ rawPsets[i].fields[j].key \notin StructuralKeys
           /\ extractValue(rawPsets[i].fields[j].value).kind \notin {"null", "object", "array"}

\* record j is the last record of its set name that has a property
LastWithSurvivor(j) ==
    /\ IsPropertySet(j) /\ HasSurvivor(j)
    /\ \A l \in DOMAIN rawPsets :
           l > j /\ IsPropertySet(l) /\ PsetName(l) = PsetName(j) => ~HasSurvivor(l)

\* record i says nothing about a property k
Silent(i, k) ==
    /\ \A j \in DOMAIN SubProperties(i) : ~SubPropertyNamed(i, j, k)
    /\ \A j \in DOMAIN rawPsets[i].fields : rawPsets[i].fields[j].key # k

\* C18 as amended: within one record the two encodings are merged
\* additively, the direct field winning; of several records with the same
\* set name the last one with a surviving property replaces the mapping of
\* the earlier ones.
C18_AdditiveWithinRecord ==
    formatted =>
        \A i \in DOMAIN rawPsets : IsPropertySet(i) =>
            /\ LastWithSurvivor(i) => AdditiveWithin(i)
            /\ \A j \in DOMAIN rawPsets : \A k \in PropertyNames :
                   ( /\ j > i /\ PsetName(j) = PsetName(i)
                     /\ LastWithSurvivor(j) /\ Silent(j, k) )
                   => PropertyOf(PsetName(i), k) = NoProperty

\* a record defines p both ways with different values and q as a
\* sub-record only; the output has the direct field's p, and q
C18_Witness ==
    /\ formatted
    /\ \E i \in DOMAIN rawPsets :
           /\ OnlyPsetNamed(i)
           /\ \E j \in DOMAIN SubProperties(i) : \E f \in DOMAIN rawPsets[i].fields :
                  /\ SubPropertySurvives(i, j, "p")
                  /\ FieldSurvives(i, f, "p")
                  /\ extractValue(SubProperties(i)[j].NominalValue)
                         # extractValue(rawPsets[i].fields[f].value)
                  /\ PropertyOf(PsetName(i), "p") = extractValue(rawPsets[i].fields[f].value)
           /\ \E j \in DOMAIN SubProperties(i) : SubPropertySurvives(i, j, "q")
           /\ PropertyOf(PsetName(i), "q") # NoProperty

(***************************************************************************)
(* The resolution of an element: the claims.                               *)
(***************************************************************************)

\* C19: for a bundle that has attributes but no relation sequence at all,
\* the resolution does not raise, and its result has the identity fields of
\* the bundle and no type label, type properties, location, materials,
\* property sets or quantity sets.
C19_NoRelationsResolves ==
    ( /\ resolved # "pending"
      /\ dataObj.attrs # << >>
      /\ ~dataObj.IsTypedBy.isArray /\ ~dataObj.ContainedInStructure.isArray
      /\ ~dataObj.HasAssociations.isArray /\ ~dataObj.IsDefinedBy.isArray )
    => /\ resolved = "done"
       /\ viewModel.globalId = extractValue(AttrOf(dataObj, "GlobalId"))
       /\ viewModel.description = extractValue(AttrOf(dataObj, "Description"))
       /\ viewModel.typeInfo = ""
       /\ DOMAIN viewModel.typeProperties = {}
       /\ viewModel.spatialContainer = ""
       /\ viewModel.materials = << >>
       /\ DOMAIN viewModel.propertySets = {}
       /\ DOMAIN viewModel.quantitySets = {}

\* a bundle with a name, a GlobalId and a tag and no relation was resolved
C19_Witness ==
    /\ resolved = "done"
    /\ ~dataObj.IsTypedBy.isArray /\ ~dataObj.ContainedInStructure.isArray
    /\ ~dataObj.HasAssociations.isArray /\ ~dataObj.IsDefinedBy.isArray
    /\ AttrOf(dataObj, "Name") = JsWrapper(JsString("Wall"))
    /\ viewModel.name = JsString("Wall")
    /\ viewModel.globalId = JsString("0")
    /\ "Tag" \in DOMAIN viewModel.directAttributes
    /\ viewModel.typeInfo = ""

TypeRecords == dataObj.IsTypedBy.items

\* type record i defines the type property k with a scalar
DefinesTypeProperty(i, k) ==
    \E f \in DOMAIN TypeRecords[i].fields :
        /\ TypeRecords[i].fields[f].key = k
        /\ IsScalar(extractValue(TypeRecords[i].fields[f].value))
TypePropertyOf(i, k) ==
    extractValue(TypeRecords[i].fields[
        CHOOSE f \in DOMAIN TypeRecords[i].fields : TypeRecords[i].fields[f].key = k].value)

\* C20: the type label is the extracted name of the first record of
\* IsTypedBy also when later records carry names, and a type property
\* defined by several records has the value of the last of them.
C20_TypeLabelFromFirstRecord ==
    (resolved = "done" /\ dataObj.IsTypedBy.isArray) =>
        /\ ( /\ Len(TypeRecords) > 1
             /\ Truthy(extractValue(TypeRecords[1].Name))
             /\ \E j \in DOMAIN TypeRecords : j > 1 /\ Truthy(extractValue(TypeRecords[j].Name)) )
           => viewModel.typeInfo = StringOf(extractValue(TypeRecords[1].Name))
        /\ \A i \in DOMAIN TypeRecords : \A k \in {"k", "j"} :
               ( /\ DefinesTypeProperty(i, k)
                 /\ \A j \in DOMAIN TypeRecords : j > i => ~DefinesTypeProperty(j, k) )
               => /\ k \in DOMAIN viewModel.typeProperties
                  /\ viewModel.typeProperties[k] = TypePropertyOf(i, k)

IdentityKeys ==
    {"Name", "GlobalId", "ObjectType", "Description", "Tag", "PredefinedType", "LongName"}

ExcludedKeys ==
    {"IsDefinedBy", "IsTypedBy", "ContainedInStructure", "HasAssociations",
     "Representation", "ObjectPlacement", "OwnerHistory", "type"}

\* the keys the bundles of the model can carry at top level
TopLevelKeys == IdentityKeys \cup ExcludedKeys \cup {"LoadBearing"}

\* the bundle has a top-level field of that key whose extracted value is
\* not null
HasNonNullField(key) ==
    \E i \in DOMAIN dataObj.attrs :
        /\ dataObj.attrs[i].key = key
        /\ extractValue(dataObj.attrs[i].value) # JsNull

\* C21: the direct attributes of a resolved element have a key exactly when
\* it is a top-level field with a non-null extracted value that is neither
\* an identity or descriptive attribute nor in the exclusion list.
C21_DirectAttributesExact ==
    resolved = "done" =>
        \A key \in TopLevelKeys :
            key \in DOMAIN viewModel.directAttributes
            <=> ( /\ HasNonNullField(key)
                  /\ key \notin IdentityKeys
                  /\ key \notin ExcludedKeys )

Relations(d) ==
    <<d.IsTypedBy, d.ContainedInStructure, d.HasAssociations, d.IsDefinedBy>>

\* some relation of the bundle has a null entry
HasMalformedEntry(d) ==
    \E r \in DOMAIN Relations(d) :
        /\ Relations(d)[r].isArray
        /\ \E i \in DOMAIN Relations(d)[r].items : ~Relations(d)[r].items[i].isObj

WellFormed(rel) ==
    [isArray |-> rel.isArray, items |-> SelectSeq(rel.items, LAMBDA e : e.isObj)]

\* the bundle without the null entries of its relations
WithoutMalformed(d) ==
    Bundle(d.attrs, d.type, WellFormed(d.IsTypedBy), WellFormed(d.ContainedInStructure),
           WellFormed(d.HasAssociations), WellFormed(d.IsDefinedBy))

\* C22: a null entry inside a relation sequence of an element is skipped
\* alone: the element is still resolved, and to what its bundle without
\* that entry resolves to.
C22_MalformedEntrySkipped ==
    (resolved # "pending" /\ HasMalformedEntry(dataObj)) =>
        /\ resolved = "done"
        /\ viewModel = resolveElement(WithoutMalformed(dataObj))

(***************************************************************************)
(* Ghost mode and model loads: the claims.                                 *)
(***************************************************************************)

\* C23: whenever ghost mode is on, every material of the list without the
\* opt-out marker has a snapshot entry and the ghost appearance
\* (transparent, the ghost opacity, white), also a material that entered
\* the list after the activation.
C23_GhostedCoversLoadedMaterials ==
    ghostModeEnabled =>
        \A m \in DOMAIN materials :
            ~CarriesCustomId(materials[m]) =>
                /\ m \in DOMAIN originalColors
                /\ materials[m].transparent = TRUE
                /\ materials[m].opacity = GhostOpacity
                /\ (IF materials[m].hasColor THEN materials[m].color
                    ELSE materials[m].lodColor) = White

(***************************************************************************)
(* Tool management: the claims.                                            *)
(***************************************************************************)
EnabledTools ==
    (IF clipper THEN {"clipper"} ELSE {})
    \cup (IF lengthMeasurer THEN {"length"} ELSE {})
    \cup (IF areaMeasurer THEN {"area"} ELSE {})

\* C24: after any sequence of setTool calls and Escape presses at most one
\* of clipper, lengthMeasurer and areaMeasurer is enabled, the enabled one
\* is the tool activeTool names, the highlighter is enabled exactly when
\* activeTool is null, and setTool with the active tool deactivates it.
C24_OneToolAtATime ==
    /\ [](/\ Cardinality(EnabledTools) <= 1
          /\ EnabledTools = {activeTool} \cap Tools
          /\ highlighter <=> activeTool = "null")
    /\ [][(toolLog' # toolLog /\ activeTool # "null"
              /\ toolLog'[Len(toolLog')] = activeTool)
          => (activeTool' = "null" /\ ~clipper' /\ ~lengthMeasurer' /\ ~areaMeasurer'
              /\ highlighter')]_vars

\* the clipper was switched on, replaced by the area tool, and the area
\* tool was switched off by its own button
C24_Witness ==
    /\ toolLog = <<"clipper", "area", "area">>
    /\ activeTool = "null"
    /\ ~clipper /\ ~areaMeasurer /\ highlighter

====
